---- MODULE Spec2Model ----
(***************************************************************************)
(* kube-lock: a distributed lock kept in one annotation of a Kubernetes    *)
(* object.  Coordinators (kubeLock values) run Acquire, Release and        *)
(* CurrentOwner against a store reached through four caller-supplied       *)
(* functions (createMeta, existsMeta, getMeta, updateMeta).  Every call of *)
(* such a function, and every reading of the clock, is one step, so calls  *)
(* of different coordinators interleave as they do between processes.      *)
(***************************************************************************)
EXTENDS Integers, Sequences, FiniteSets, TLC

(* ---------------------------------------------------------------- bounds *)
MaxTime == 3
MaxVersion == 3

(* --------------------------------------------------------- configuration *)
\* alice and bob contend for the lock kept under the default key.
Coordinators == {"alice", "bob"}

\* carol uses another annotation of the same object for a lock of her own.
AllCoordinators == Coordinators \cup {"carol"}

defaultAnnotationKey == "pulcy.com/kube-lock"

OtherKey == "example.com/other"

\* kubeLock.annotationKey, kubeLock.ownerID, kubeLock.ttl: set once by
\* NewKubeLock and never assigned again.
annotationKey ==
    [c \in AllCoordinators |-> IF c = "carol" THEN OtherKey ELSE defaultAnnotationKey]

ownerID == [c \in AllCoordinators |-> c]

ttl == [c \in AllCoordinators |-> IF c = "alice" THEN 2 ELSE 1]

Payload == "item"

NoToken == -1

NoGrant == -1

(* ------------------------------------------------------------------ codec *)
\* A string is a sequence; "" is the empty sequence.
EmptyString == <<>>

\* A non-empty annotation value that is not a JSON object.
Garbage == <<"garbage">>

LockData(owner, expiresAt) == [Owner |-> owner, ExpiresAt |-> expiresAt]

\* json.Marshal(LockData{...}): an object with the attributes owner and
\* expires_at.
Marshal(ld) == <<"{", "owner", ld.Owner, "expires_at", ld.ExpiresAt, "}">>

\* json.Unmarshal([]byte(raw), &lockData): err is TRUE when raw is not a
\* JSON object of that shape.
Unmarshal(raw) ==
    IF /\ Len(raw) = 6
       /\ raw[1] = "{"
       /\ raw[2] = "owner"
       /\ raw[4] = "expires_at"
       /\ raw[6] = "}"
    THEN [err |-> FALSE, lockData |-> LockData(raw[3], raw[5])]
    ELSE [err |-> TRUE, lockData |-> LockData("", 0)]

\* MapSet with a map made anew for the lock field alone.
MapSet_Fresh(m, k, v) == [x \in {k} |-> v]

\* ann[key] = value on a Go map: the key is added when absent.
MapSet(m, k, v) == [x \in (DOMAIN m) \cup {k} |-> IF x = k THEN v ELSE m[x]]

EmptyMap == <<>>

(* ------------------------------------------------------------------ state *)
VARIABLES
    exists,       \* store: the backing object exists
    annotations,  \* store: the object's annotation map
    version,      \* store: the object's resource version
    item,         \* store: the object payload
    now,          \* the clock read by time.Now()
    pc,           \* per coordinator: position in the running call
    ann,          \* per coordinator: local ann
    rv,           \* per coordinator: local rv
    extra,        \* per coordinator: local extra
    ret,          \* per coordinator: what the last call returned
    tok,          \* per coordinator: token given to updateMeta in the call
    updates,      \* per coordinator: updateMeta invocations in the call
    grant,        \* per coordinator: expiresAt of the grant obtained by its
                  \* last successful Acquire, NoGrant after a successful
                  \* Release
    held          \* per coordinator: expiresAt of its own unexpired record
                  \* in the store when its running or last Acquire was
                  \* called, NoGrant when there was none

vars == <<exists, annotations, version, item, now, pc, ann, rv, extra, ret,
          tok, updates, grant, held>>

store == <<exists, annotations, version, item>>

locals == <<ann, rv, extra>>

\* What a call returned: the operation, the error kind ("nil" for success),
\* the owner named by the error or by CurrentOwner, and the time of return.
NoRet == [op |-> "none", err |-> "none", owner |-> "", at |-> 0]

Ret(op, err, owner) == [op |-> op, err |-> err, owner |-> owner, at |-> now]

\* The annotation maps the store may hold before the first call.
InitAnnotations ==
    { EmptyMap,
      [k \in {defaultAnnotationKey} |-> EmptyString],
      [k \in {defaultAnnotationKey} |-> Garbage],
      [k \in {OtherKey} |-> Garbage] }

Init ==
    /\ exists \in BOOLEAN
    /\ annotations \in (IF exists THEN InitAnnotations ELSE {EmptyMap})
    /\ version = 0
    /\ item = Payload
    /\ now = 0
    /\ pc = [c \in AllCoordinators |-> "idle"]
    /\ ann = [c \in AllCoordinators |-> EmptyMap]
    /\ rv = [c \in AllCoordinators |-> NoToken]
    /\ extra = [c \in AllCoordinators |-> ""]
    /\ ret = [c \in AllCoordinators |-> NoRet]
    /\ tok = [c \in AllCoordinators |-> NoToken]
    /\ updates = [c \in AllCoordinators |-> 0]
    /\ grant = [c \in AllCoordinators |-> NoGrant]
    /\ held = [c \in AllCoordinators |-> NoGrant]

(* ------------------------------------------------------------------ store *)
\* MetaExists
existsMeta == exists

\* MetaCreator: creates the object; refused when it is already there.
createMetaOk == ~exists

\* MetaGetter: fails when there is no object to read.
getMetaOk == exists

\* MetaUpdater: accepted only with the current resource version.
updateMetaOk(resourceVersion) == exists /\ resourceVersion = version

\* The lock data stored under key k, if the object has a decodable record.
HasRecord(k) ==
    /\ exists
    /\ k \in DOMAIN annotations
    /\ annotations[k] # EmptyString
    /\ ~Unmarshal(annotations[k]).err

Record(k) == Unmarshal(annotations[k]).lockData

\* expiresAt of c's own unexpired record in the store, or NoGrant.
OwnLive(c) ==
    IF /\ HasRecord(annotationKey[c])
       /\ Record(annotationKey[c]).Owner = ownerID[c]
       /\ now < Record(annotationKey[c]).ExpiresAt
    THEN Record(annotationKey[c]).ExpiresAt
    ELSE NoGrant

\* Number of calls in progress, each of which may still write once.
InFlight == Cardinality({c \in AllCoordinators : pc[c] # "idle"})

\* A new call starts only while the version counter has room for it.
MayStart(c) == pc[c] = "idle" /\ version + InFlight < MaxVersion

\* A call returns: its locals are gone.
Return(c, r) ==
    /\ pc' = [pc EXCEPT ![c] = "idle"]
    /\ ann' = [ann EXCEPT ![c] = EmptyMap]
    /\ rv' = [rv EXCEPT ![c] = NoToken]
    /\ extra' = [extra EXCEPT ![c] = ""]
    /\ ret' = [ret EXCEPT ![c] = r]

(* ---------------------------------------------------------------- Acquire *)
\* l.existsMeta() == false
AcquireExists(c) ==
    /\ MayStart(c)
    /\ pc' = [pc EXCEPT ![c] = IF existsMeta THEN "AcquireGet" ELSE "AcquireCreate"]
    /\ ret' = [ret EXCEPT ![c] = NoRet]
    /\ tok' = [tok EXCEPT ![c] = NoToken]
    /\ updates' = [updates EXCEPT ![c] = 0]
    /\ held' = [held EXCEPT ![c] = OwnLive(c)]
    /\ UNCHANGED <<store, now, locals, grant>>

\* AcquireCreate going on to getMeta although createMeta failed.
AcquireCreate_IgnoreError(c) ==
    /\ pc[c] = "AcquireCreate"
    /\ IF createMetaOk
       THEN /\ exists' = TRUE
            /\ annotations' = EmptyMap
            /\ UNCHANGED <<version, item>>
       ELSE UNCHANGED store
    /\ pc' = [pc EXCEPT ![c] = "AcquireGet"]
    /\ UNCHANGED <<now, locals, ret, tok, updates, grant, held>>

\* _, err := l.createMeta()
AcquireCreate(c) ==
    /\ pc[c] = "AcquireCreate"
    /\ IF createMetaOk
       THEN /\ exists' = TRUE
            /\ annotations' = EmptyMap
            /\ pc' = [pc EXCEPT ![c] = "AcquireGet"]
            /\ UNCHANGED <<version, item, locals, ret>>
       ELSE /\ Return(c, Ret("Acquire", "CreateError", ""))
            /\ UNCHANGED store
    /\ UNCHANGED <<now, tok, updates, grant, held>>

\* ann, rv, extra, err := l.getMeta()
AcquireGet(c) ==
    /\ pc[c] = "AcquireGet"
    /\ IF getMetaOk
       THEN /\ ann' = [ann EXCEPT ![c] = annotations]
            /\ rv' = [rv EXCEPT ![c] = version]
            /\ extra' = [extra EXCEPT ![c] = item]
            /\ pc' = [pc EXCEPT ![c] = "AcquireCheck"]
            /\ UNCHANGED ret
       ELSE Return(c, Ret("Acquire", "GetError", ""))
    /\ UNCHANGED <<store, now, tok, updates, grant, held>>

\* AcquireDecide with the expiry comparison the wrong way round.
AcquireDecide_After(c, a, t) ==
    IF annotationKey[c] \in DOMAIN a /\ a[annotationKey[c]] # EmptyString
    THEN LET u == Unmarshal(a[annotationKey[c]])
         IN IF u.err THEN "malformed"
            ELSE IF u.lockData.Owner # ownerID[c] /\ t > u.lockData.ExpiresAt
                 THEN "locked"
                 ELSE "free"
    ELSE "free"

\* AcquireDecide without the return on a live foreign record.
AcquireDecide_NoReturn(c, a, t) ==
    IF annotationKey[c] \in DOMAIN a /\ a[annotationKey[c]] # EmptyString
    THEN LET u == Unmarshal(a[annotationKey[c]])
         IN IF u.err THEN "malformed" ELSE "free"
    ELSE "free"

\* AcquireDecide without the comparison of owners.
AcquireDecide_AnyOwner(c, a, t) ==
    IF annotationKey[c] \in DOMAIN a /\ a[annotationKey[c]] # EmptyString
    THEN LET u == Unmarshal(a[annotationKey[c]])
         IN IF u.err THEN "malformed"
            ELSE IF t < u.lockData.ExpiresAt THEN "locked" ELSE "free"
    ELSE "free"

\* AcquireDecide taking a value that does not decode for no record.
AcquireDecide_MalformedFree(c, a, t) ==
    IF annotationKey[c] \in DOMAIN a /\ a[annotationKey[c]] # EmptyString
    THEN LET u == Unmarshal(a[annotationKey[c]])
         IN IF u.err THEN "free"
            ELSE IF u.lockData.Owner # ownerID[c] /\ t < u.lockData.ExpiresAt
                 THEN "locked"
                 ELSE "free"
    ELSE "free"

\* AcquireDecide refusing a foreign record up to and including expiresAt.
AcquireDecide_AtOrBefore(c, a, t) ==
    IF annotationKey[c] \in DOMAIN a /\ a[annotationKey[c]] # EmptyString
    THEN LET u == Unmarshal(a[annotationKey[c]])
         IN IF u.err THEN "malformed"
            ELSE IF u.lockData.Owner # ownerID[c] /\ t <= u.lockData.ExpiresAt
                 THEN "locked"
                 ELSE "free"
    ELSE "free"

\* AcquireDecide never taking over: a foreign record always refuses.
AcquireDecide_NeverExpires(c, a, t) ==
    IF annotationKey[c] \in DOMAIN a /\ a[annotationKey[c]] # EmptyString
    THEN LET u == Unmarshal(a[annotationKey[c]])
         IN IF u.err THEN "malformed"
            ELSE IF u.lockData.Owner # ownerID[c] THEN "locked" ELSE "free"
    ELSE "free"

\* The outcome of the lock-data test on the map a: "malformed", "locked"
\* (a foreign record that has not expired at time t) or "free".
AcquireDecide(c, a, t) ==
    IF annotationKey[c] \in DOMAIN a /\ a[annotationKey[c]] # EmptyString
    THEN LET u == Unmarshal(a[annotationKey[c]])
         IN IF u.err THEN "malformed"
            ELSE IF u.lockData.Owner # ownerID[c] /\ t < u.lockData.ExpiresAt
                 THEN "locked"
                 ELSE "free"
    ELSE "free"

\* if lockDataRaw, ok := ann[l.annotationKey]; ok && lockDataRaw != "" {...}
AcquireCheck(c) ==
    /\ pc[c] = "AcquireCheck"
    /\ LET d == AcquireDecide(c, ann[c], now)
       IN IF d = "malformed"
          THEN Return(c, Ret("Acquire", "Malformed", ""))
          ELSE IF d = "locked"
               THEN Return(c, Ret("Acquire", "AlreadyLocked",
                           Unmarshal(ann[c][annotationKey[c]]).lockData.Owner))
               ELSE /\ pc' = [pc EXCEPT ![c] = "AcquireLock"]
                    /\ UNCHANGED <<locals, ret>>
    /\ UNCHANGED <<store, now, tok, updates, grant, held>>

\* AcquireExpiredAt without the ttl.
AcquireExpiredAt_NoTtl(c, t) == t

\* expiredAt := time.Now().Add(l.ttl)
AcquireExpiredAt(c, t) == t + ttl[c]

\* ann[l.annotationKey] = string(lockDataRaw)
AcquireLock(c) ==
    /\ pc[c] = "AcquireLock"
    /\ ann' = [ann EXCEPT ![c] =
                 MapSet(ann[c], annotationKey[c],
                        Marshal(LockData(ownerID[c], AcquireExpiredAt(c, now))))]
    /\ pc' = [pc EXCEPT ![c] = "AcquireUpdate"]
    /\ UNCHANGED <<store, now, rv, extra, ret, tok, updates, grant, held>>

\* UpdateToken with no resource version given to updateMeta.
UpdateToken_Empty(c) == NoToken

\* UpdateToken with the version the store has at the moment of the update.
UpdateToken_Current(c) == version

\* The resource version in l.updateMeta(ann, rv, extra).
UpdateToken(c) == rv[c]

\* AcquireUpdateResult with the error of updateMeta dropped.
AcquireUpdateResult_Swallowed(accepted) == "nil"

\* What Acquire returns when updateMeta has answered.
AcquireUpdateResult(accepted) == IF accepted THEN "nil" ELSE "Conflict"

\* if err := l.updateMeta(ann, rv, extra); err != nil {...}; return nil
AcquireUpdate(c) ==
    /\ pc[c] = "AcquireUpdate"
    /\ tok' = [tok EXCEPT ![c] = UpdateToken(c)]
    /\ updates' = [updates EXCEPT ![c] = @ + 1]
    /\ IF updateMetaOk(UpdateToken(c))
       THEN /\ annotations' = ann[c]
            /\ item' = extra[c]
            /\ version' = version + 1
            /\ UNCHANGED exists
       ELSE UNCHANGED store
    /\ LET r == AcquireUpdateResult(updateMetaOk(UpdateToken(c)))
       IN /\ Return(c, Ret("Acquire", r, ""))
          /\ grant' = IF r = "nil"
                      THEN [grant EXCEPT ![c] =
                              Unmarshal(ann[c][annotationKey[c]]).lockData.ExpiresAt]
                      ELSE grant
    /\ UNCHANGED <<now, held>>

(* ---------------------------------------------------------------- Release *)
\* if l.existsMeta() == false { return nil }
ReleaseExists(c) ==
    /\ MayStart(c)
    /\ tok' = [tok EXCEPT ![c] = NoToken]
    /\ updates' = [updates EXCEPT ![c] = 0]
    /\ IF existsMeta
       THEN /\ pc' = [pc EXCEPT ![c] = "ReleaseGet"]
            /\ ret' = [ret EXCEPT ![c] = NoRet]
            /\ UNCHANGED <<locals, grant>>
       ELSE /\ Return(c, Ret("Release", "nil", ""))
            /\ grant' = [grant EXCEPT ![c] = NoGrant]
    /\ held' = [held EXCEPT ![c] = NoGrant]
    /\ UNCHANGED <<store, now>>

\* ReleaseDecide letting anyone clear an expired record.
ReleaseDecide_ExpiredOk(c, a) ==
    IF annotationKey[c] \in DOMAIN a /\ a[annotationKey[c]] # EmptyString
    THEN LET u == Unmarshal(a[annotationKey[c]])
         IN IF u.err THEN "malformed"
            ELSE IF u.lockData.Owner # ownerID[c] /\ now < u.lockData.ExpiresAt
                 THEN "foreign"
                 ELSE "write"
    ELSE IF annotationKey[c] \in DOMAIN a /\ a[annotationKey[c]] = EmptyString
         THEN "released"
         ELSE "write"

\* ReleaseDecide without the comparison of owners.
ReleaseDecide_AnyOwner(c, a) ==
    IF annotationKey[c] \in DOMAIN a /\ a[annotationKey[c]] # EmptyString
    THEN LET u == Unmarshal(a[annotationKey[c]])
         IN IF u.err THEN "malformed" ELSE "write"
    ELSE IF annotationKey[c] \in DOMAIN a /\ a[annotationKey[c]] = EmptyString
         THEN "released"
         ELSE "write"

\* The outcome of the lock-data test of Release on the map a.
ReleaseDecide(c, a) ==
    IF annotationKey[c] \in DOMAIN a /\ a[annotationKey[c]] # EmptyString
    THEN LET u == Unmarshal(a[annotationKey[c]])
         IN IF u.err THEN "malformed"
            ELSE IF u.lockData.Owner # ownerID[c] THEN "foreign" ELSE "write"
    ELSE IF annotationKey[c] \in DOMAIN a /\ a[annotationKey[c]] = EmptyString
         THEN "released"
         ELSE "write"

\* ReleaseCleared with delete(ann, l.annotationKey) instead.
ReleaseCleared_Delete(c, a) == [x \in (DOMAIN a) \ {annotationKey[c]} |-> a[x]]

\* ann[l.annotationKey] = ""
ReleaseCleared(c, a) == MapSet(a, annotationKey[c], EmptyString)

\* ann, rv, extra, err := l.getMeta() up to ann[l.annotationKey] = ""
ReleaseGet(c) ==
    /\ pc[c] = "ReleaseGet"
    /\ IF ~getMetaOk
       THEN /\ Return(c, Ret("Release", "GetError", ""))
            /\ UNCHANGED grant
       ELSE LET d == ReleaseDecide(c, annotations)
            IN IF d = "malformed"
               THEN /\ Return(c, Ret("Release", "Malformed", ""))
                    /\ UNCHANGED grant
               ELSE IF d = "foreign"
               THEN /\ Return(c, Ret("Release", "NotLockedByMe",
                            Unmarshal(annotations[annotationKey[c]]).lockData.Owner))
                    /\ UNCHANGED grant
               ELSE IF d = "released"
               THEN /\ Return(c, Ret("Release", "nil", ""))
                    /\ grant' = [grant EXCEPT ![c] = NoGrant]
               ELSE /\ ann' = [ann EXCEPT ![c] = ReleaseCleared(c, annotations)]
                    /\ rv' = [rv EXCEPT ![c] = version]
                    /\ extra' = [extra EXCEPT ![c] = item]
                    /\ pc' = [pc EXCEPT ![c] = "ReleaseUpdate"]
                    /\ UNCHANGED <<ret, grant>>
    /\ UNCHANGED <<store, now, tok, updates, held>>

\* ReleaseUpdateResult with the error of updateMeta dropped.
ReleaseUpdateResult_Swallowed(accepted) == "nil"

\* What Release returns when updateMeta has answered.
ReleaseUpdateResult(accepted) == IF accepted THEN "nil" ELSE "Conflict"

\* if err := l.updateMeta(ann, rv, extra); err != nil {...}; return nil
ReleaseUpdate(c) ==
    /\ pc[c] = "ReleaseUpdate"
    /\ tok' = [tok EXCEPT ![c] = UpdateToken(c)]
    /\ updates' = [updates EXCEPT ![c] = @ + 1]
    /\ IF updateMetaOk(UpdateToken(c))
       THEN /\ annotations' = ann[c]
            /\ item' = extra[c]
            /\ version' = version + 1
            /\ UNCHANGED exists
       ELSE UNCHANGED store
    /\ LET r == ReleaseUpdateResult(updateMetaOk(UpdateToken(c)))
       IN /\ Return(c, Ret("Release", r, ""))
          /\ grant' = IF r = "nil" THEN [grant EXCEPT ![c] = NoGrant] ELSE grant
    /\ UNCHANGED <<now, held>>

(* ----------------------------------------------------------- CurrentOwner *)
\* CurrentOwnerResult reporting no owner for an expired record.
CurrentOwnerResult_Expired(c, a) ==
    IF annotationKey[c] \in DOMAIN a /\ a[annotationKey[c]] # EmptyString
    THEN LET u == Unmarshal(a[annotationKey[c]])
         IN IF u.err
            THEN Ret("CurrentOwner", "Malformed", "")
            ELSE IF now < u.lockData.ExpiresAt
                 THEN Ret("CurrentOwner", "nil", u.lockData.Owner)
                 ELSE Ret("CurrentOwner", "nil", "")
    ELSE Ret("CurrentOwner", "nil", "")

\* What CurrentOwner returns on the map a.
CurrentOwnerResult(c, a) ==
    IF annotationKey[c] \in DOMAIN a /\ a[annotationKey[c]] # EmptyString
    THEN LET u == Unmarshal(a[annotationKey[c]])
         IN IF u.err
            THEN Ret("CurrentOwner", "Malformed", "")
            ELSE Ret("CurrentOwner", "nil", u.lockData.Owner)
    ELSE Ret("CurrentOwner", "nil", "")

\* CurrentOwner beginning, as Acquire does, by creating a missing object.
CurrentOwner_EnsuresObject(c) ==
    /\ pc[c] = "idle"
    /\ tok' = [tok EXCEPT ![c] = NoToken]
    /\ updates' = [updates EXCEPT ![c] = 0]
    /\ IF exists
       THEN /\ Return(c, CurrentOwnerResult(c, annotations))
            /\ UNCHANGED store
       ELSE /\ exists' = TRUE
            /\ annotations' = EmptyMap
            /\ Return(c, CurrentOwnerResult(c, EmptyMap))
            /\ UNCHANGED <<version, item>>
    /\ held' = [held EXCEPT ![c] = NoGrant]
    /\ UNCHANGED <<now, grant>>

\* ann, _, _, err := l.getMeta() and the decoding of the lock data
CurrentOwner(c) ==
    /\ pc[c] = "idle"
    /\ tok' = [tok EXCEPT ![c] = NoToken]
    /\ updates' = [updates EXCEPT ![c] = 0]
    /\ IF getMetaOk
       THEN Return(c, CurrentOwnerResult(c, annotations))
       ELSE Return(c, Ret("CurrentOwner", "GetError", ""))
    /\ held' = [held EXCEPT ![c] = NoGrant]
    /\ UNCHANGED <<store, now, grant>>

(* ------------------------------------------------------------------ clock *)
\* Time passes between any two steps.
Tick ==
    /\ now < MaxTime
    /\ now' = now + 1
    /\ UNCHANGED <<store, pc, locals, ret, tok, updates, grant, held>>

Next ==
    \/ \E c \in Coordinators : AcquireExists(c)
    \/ \E c \in Coordinators : AcquireCreate(c)
    \/ \E c \in Coordinators : AcquireGet(c)
    \/ \E c \in Coordinators : AcquireCheck(c)
    \/ \E c \in Coordinators : AcquireLock(c)
    \/ \E c \in Coordinators : AcquireUpdate(c)
    \/ \E c \in Coordinators : ReleaseExists(c)
    \/ \E c \in Coordinators : ReleaseGet(c)
    \/ \E c \in Coordinators : ReleaseUpdate(c)
    \/ \E c \in Coordinators : CurrentOwner(c)
    \/ Tick

Spec == Init /\ [][Next]_vars

(* ----------------------------------------------------------------- claims *)
\* c's call of operation op has returned (and no later call has begun).
Returned(c, op) == pc[c] = "idle" /\ ret[c].op = op

\* The step is the one in which c leaves position p.
Leaves(c, p) == pc[c] = p /\ pc'[c] # p

\* C1: two coordinators whose Acquire calls gave updateMeta the same version
\* token never both return success: when one returned nil the other returned
\* the store's conflict error, and as long as nothing was written since, the
\* stored record names the one that returned nil.
C1_MutualExclusionOnRace ==
    \A c, d \in Coordinators :
        ( /\ c # d
          /\ Returned(c, "Acquire") /\ Returned(d, "Acquire")
          /\ tok[c] # NoToken /\ tok[c] = tok[d]
          /\ ret[c].err = "nil" )
        => /\ ret[d].err = "Conflict"
           /\ version = tok[c] + 1
                => /\ HasRecord(annotationKey[c])
                   /\ Record(annotationKey[c]).Owner = ownerID[c]

\* Both read version 0 of an object without a holder; alice won, bob lost.
C1_Witness ==
    /\ Returned("alice", "Acquire") /\ Returned("bob", "Acquire")
    /\ tok["alice"] = 0 /\ tok["bob"] = 0
    /\ ret["alice"].err = "nil" /\ ret["bob"].err = "Conflict"
    /\ version = 1
    /\ Record(defaultAnnotationKey).Owner = "alice"

\* c's grant is in force: its last successful Acquire wrote an expiresAt
\* that the clock has not reached, and it has not released since.
InForce(c) == grant[c] # NoGrant /\ now < grant[c]

\* C2: two distinct owners never hold grants in force at the same instant.
C2_AtMostOneGrantInForce ==
    \A c, d \in Coordinators : (InForce(c) /\ InForce(d)) => c = d

\* bob holds a grant in force after taking over from alice, whose grant has
\* run out without a release.
C2_Witness ==
    /\ InForce("bob")
    /\ grant["alice"] # NoGrant /\ ~InForce("alice")

\* The lock data in c's local map ann, if it holds a decodable record.
LocalHas(c) ==
    /\ annotationKey[c] \in DOMAIN ann[c]
    /\ ann[c][annotationKey[c]] # EmptyString
    /\ ~Unmarshal(ann[c][annotationKey[c]]).err

LocalRecord(c) == Unmarshal(ann[c][annotationKey[c]]).lockData

\* The lock data in the store after the step.
RecordAfter(k) == Unmarshal(annotations'[k]).lockData

\* C3: when Acquire by c tests a record it read whose owner is another
\* coordinator and whose expiresAt is later than the clock, it returns
\* AlreadyLocked naming that owner, has called updateMeta not once, and the
\* store is as it was.
C3_ConflictOnLiveForeignLock ==
    [][\A c \in Coordinators :
         ( /\ Leaves(c, "AcquireCheck")
           /\ LocalHas(c)
           /\ LocalRecord(c).Owner # ownerID[c]
           /\ now < LocalRecord(c).ExpiresAt )
         => /\ ret'[c] = Ret("Acquire", "AlreadyLocked", LocalRecord(c).Owner)
            /\ pc'[c] = "idle"
            /\ updates'[c] = 0
            /\ store' = store]_vars

\* bob has just been refused on alice's live record.
C3_Witness ==
    /\ Returned("bob", "Acquire")
    /\ ret["bob"] = Ret("Acquire", "AlreadyLocked", "alice")
    /\ updates["bob"] = 0
    /\ HasRecord(defaultAnnotationKey)
    /\ Record(defaultAnnotationKey).Owner = "alice"
    /\ now < Record(defaultAnnotationKey).ExpiresAt

\* C4: an Acquire by c that got past the test of a foreign record did so
\* because the record had expired, and it builds a record with owner c and
\* expiresAt = clock + ttl; when its updateMeta carries the version that is
\* still current (no write landed since its read) on a foreign record, it
\* returns success and the store holds exactly the record it built.
C4_ExpiryBasedTakeover ==
    [][\A c \in Coordinators :
         /\ ( /\ Leaves(c, "AcquireLock")
              /\ LocalHas(c)
              /\ LocalRecord(c).Owner # ownerID[c] )
            => /\ LocalRecord(c).ExpiresAt <= now
               /\ ann'[c][annotationKey[c]]
                    = Marshal(LockData(ownerID[c], now + ttl[c]))
         /\ ( /\ Leaves(c, "AcquireUpdate")
              /\ rv[c] = version
              /\ HasRecord(annotationKey[c])
              /\ Record(annotationKey[c]).Owner # ownerID[c] )
            => /\ ret'[c] = Ret("Acquire", "nil", "")
               /\ annotations' = ann[c]
               /\ version' = version + 1
               /\ RecordAfter(annotationKey[c]).Owner = ownerID[c]
               /\ RecordAfter(annotationKey[c]).ExpiresAt - ttl[c] <= now]_vars

\* bob has just taken over from alice, who acquired and never released.
C4_Witness ==
    /\ Returned("bob", "Acquire")
    /\ ret["bob"] = Ret("Acquire", "nil", "")
    /\ grant["alice"] # NoGrant
    /\ version = tok["bob"] + 1
    /\ Record(defaultAnnotationKey) = LockData("bob", now + ttl["bob"])

\* C5 as stated: every Acquire called by c while the store holds c's own
\* unexpired record returns success and leaves a strictly greater expiresAt.
C5_RenewalAlwaysSucceeds ==
    \A c \in Coordinators :
        (Returned(c, "Acquire") /\ held[c] # NoGrant)
        => /\ ret[c].err = "nil"
           /\ grant[c] > held[c]

\* C5, amended: an Acquire by c that read c's own record goes on to write
\* whatever the record's expiresAt, and the expiresAt it builds is greater
\* than the one it read when the clock has advanced since that one was
\* built; when no write landed between its read and its updateMeta it
\* returns success and the stored expiresAt is not smaller than before; when
\* a write did land it returns the conflict error.
C5_RenewalUnlessRaced ==
    [][\A c \in Coordinators :
         /\ ( /\ Leaves(c, "AcquireCheck")
              /\ LocalHas(c)
              /\ LocalRecord(c).Owner = ownerID[c] )
            => pc'[c] = "AcquireLock"
         /\ ( /\ Leaves(c, "AcquireLock")
              /\ LocalHas(c)
              /\ LocalRecord(c).Owner = ownerID[c]
              /\ now > LocalRecord(c).ExpiresAt - ttl[c] )
            => Unmarshal(ann'[c][annotationKey[c]]).lockData.ExpiresAt
                 > LocalRecord(c).ExpiresAt
         /\ ( /\ Leaves(c, "AcquireUpdate")
              /\ rv[c] = version
              /\ HasRecord(annotationKey[c])
              /\ Record(annotationKey[c]).Owner = ownerID[c] )
            => /\ ret'[c] = Ret("Acquire", "nil", "")
               /\ RecordAfter(annotationKey[c]).Owner = ownerID[c]
               /\ RecordAfter(annotationKey[c]).ExpiresAt
                    >= Record(annotationKey[c]).ExpiresAt
         /\ (Leaves(c, "AcquireUpdate") /\ rv[c] # version)
            => ret'[c] = Ret("Acquire", "Conflict", "")]_vars

\* alice has renewed her unexpired record and pushed its expiresAt forward.
C5_Witness ==
    /\ Returned("alice", "Acquire")
    /\ ret["alice"].err = "nil"
    /\ held["alice"] # NoGrant
    /\ grant["alice"] > held["alice"]
    /\ Record(defaultAnnotationKey) = LockData("alice", grant["alice"])

\* C6: when Release by c reads a record owned by another coordinator it
\* returns NotLockedByMe naming that owner, expired or not, without calling
\* updateMeta; the store is as it was.
C6_ReleaseAuthorization ==
    [][\A c \in Coordinators :
         ( /\ Leaves(c, "ReleaseGet")
           /\ HasRecord(annotationKey[c])
           /\ Record(annotationKey[c]).Owner # ownerID[c] )
         => /\ ret'[c] = Ret("Release", "NotLockedByMe",
                             Record(annotationKey[c]).Owner)
            /\ pc'[c] = "idle"
            /\ updates'[c] = 0
            /\ store' = store]_vars

\* bob has just been refused the release of alice's expired record.
C6_Witness ==
    /\ Returned("bob", "Release")
    /\ ret["bob"] = Ret("Release", "NotLockedByMe", "alice")
    /\ updates["bob"] = 0
    /\ HasRecord(defaultAnnotationKey)
    /\ Record(defaultAnnotationKey).Owner = "alice"
    /\ Record(defaultAnnotationKey).ExpiresAt <= now

\* C7: when Release by c, having read c's own record, submits its update
\* with the version still current, it returns success and the lock field is
\* in the map with the empty string as value; on that map every Acquire
\* finds the lock free at any time and CurrentOwner returns "" without error.
C7_ReleaseByOwner ==
    [][\A c \in Coordinators :
         ( /\ Leaves(c, "ReleaseUpdate")
           /\ rv[c] = version
           /\ HasRecord(annotationKey[c])
           /\ Record(annotationKey[c]).Owner = ownerID[c] )
         => /\ ret'[c] = Ret("Release", "nil", "")
            /\ version' = version + 1
            /\ annotationKey[c] \in DOMAIN annotations'
            /\ annotations'[annotationKey[c]] = EmptyString
            /\ \A d \in Coordinators :
                 /\ \A t \in 0..MaxTime : AcquireDecide(d, annotations', t) = "free"
                 /\ CurrentOwnerResult(d, annotations')
                      = Ret("CurrentOwner", "nil", "")]_vars

\* alice has just released: her update carried a version of 1 or more, and
\* a map read at such a version and not refused by Release holds her record.
C7_Witness ==
    /\ Returned("alice", "Release")
    /\ ret["alice"] = Ret("Release", "nil", "")
    /\ tok["alice"] >= 1
    /\ version = tok["alice"] + 1
    /\ annotations[defaultAnnotationKey] = EmptyString

\* C8: Release returns success without calling updateMeta and leaves the
\* store as it was when (a) the object does not exist, (b) the lock field is
\* absent from the map, (c) the lock field holds the empty string.
C8_IdempotentRelease ==
    [][\A c \in Coordinators :
         /\ (ReleaseExists(c) /\ ~exists)
            => /\ ret'[c] = Ret("Release", "nil", "")
               /\ updates'[c] = 0
               /\ store' = store
         /\ ( /\ Leaves(c, "ReleaseGet")
              /\ exists
              /\ \/ annotationKey[c] \notin DOMAIN annotations
                 \/ annotations[annotationKey[c]] = EmptyString )
            => /\ ret'[c] = Ret("Release", "nil", "")
               /\ pc'[c] = "idle"
               /\ updates'[c] = 0
               /\ store' = store]_vars

\* C9: CurrentOwner on an existing object returns the owner of the stored
\* record whenever the field holds one, whatever its expiresAt, and returns
\* "" without error exactly when the field is absent or the empty string.
C9_OwnerVisibilityIgnoresExpiry ==
    [][\A c \in Coordinators :
         (ret'[c] # ret[c] /\ ret'[c].op = "CurrentOwner" /\ exists)
         => /\ HasRecord(annotationKey[c])
               => ret'[c] = Ret("CurrentOwner", "nil",
                                Record(annotationKey[c]).Owner)
            /\ (ret'[c].err = "nil" /\ ret'[c].owner = "")
               <=> \/ annotationKey[c] \notin DOMAIN annotations
                   \/ annotations[annotationKey[c]] = EmptyString]_vars

\* bob has just been told that alice owns the record, which has expired.
C9_Witness ==
    /\ Returned("bob", "CurrentOwner")
    /\ ret["bob"] = Ret("CurrentOwner", "nil", "alice")
    /\ HasRecord(defaultAnnotationKey)
    /\ Record(defaultAnnotationKey).Owner = "alice"
    /\ Record(defaultAnnotationKey).ExpiresAt <= now

\* C10: a call invokes updateMeta at most once; when the update is refused
\* the call returns the store's conflict error at once and the store keeps
\* what the winning writer put there.
C10_NoAutomaticRetry ==
    [][\A c \in Coordinators :
         /\ updates'[c] <= 1
         /\ \A op \in {"Acquire", "Release"} :
              ( /\ pc[c] = op \o "Update"
                /\ pc'[c] # pc[c]
                /\ rv[c] # version )
              => /\ ret'[c] = Ret(op, "Conflict", "")
                 /\ pc'[c] = "idle"
                 /\ updates'[c] = 1
                 /\ store' = store]_vars

\* alice's Release lost against bob's takeover: one update, refused, and
\* the record is bob's.
C10_Witness ==
    /\ Returned("alice", "Release")
    /\ ret["alice"].err = "Conflict"
    /\ updates["alice"] = 1
    /\ version = tok["alice"] + 1
    /\ HasRecord(defaultAnnotationKey)
    /\ Record(defaultAnnotationKey).Owner = "bob"

\* a was the holder, its grant ran out without a release, and b has taken
\* over: b's grant is in force and the stored record is b's.
Ousted(a, b) ==
    /\ a # b
    /\ grant[a] # NoGrant /\ grant[a] <= now
    /\ InForce(b)
    /\ HasRecord(annotationKey[b])
    /\ Record(annotationKey[b]) = LockData(ownerID[b], grant[b])

\* C11: while a is ousted by b, an Acquire by a that tests b's live record
\* returns AlreadyLocked naming b, no Acquire by a returns success, a Release
\* by a that reads the store returns NotLockedByMe naming b, and no step of a
\* changes the store.
C11_OustedHolderCannotDisturb ==
    [][\A a, b \in Coordinators :
         Ousted(a, b)
         => /\ ( /\ Leaves(a, "AcquireCheck")
                 /\ LocalHas(a)
                 /\ LocalRecord(a) = Record(annotationKey[b]) )
               => ret'[a] = Ret("Acquire", "AlreadyLocked", ownerID[b])
            /\ (ret'[a] # ret[a] /\ ret'[a].op = "Acquire")
               => ret'[a].err \in {"AlreadyLocked", "Conflict"}
            /\ Leaves(a, "ReleaseGet")
               => ret'[a] = Ret("Release", "NotLockedByMe", ownerID[b])
            /\ pc'[a] # pc[a] => store' = store]_vars

\* alice, ousted by bob, has just been refused by Acquire.
C11_Witness ==
    /\ Ousted("alice", "bob")
    /\ Returned("alice", "Acquire")
    /\ ret["alice"] = Ret("Acquire", "AlreadyLocked", "bob")

\* The positions of a call after getMeta and before its return.
AfterGet == {"AcquireCheck", "AcquireLock", "AcquireUpdate", "ReleaseUpdate"}

\* C12: getMeta leaves in rv the version the store has at that moment, rv
\* is not touched until the call's updateMeta, updateMeta is given rv, and
\* a coordinator that is in no call holds no token.
C12_FreshVersionToken ==
    [][\A c \in Coordinators :
         /\ (pc[c] \notin AfterGet /\ pc'[c] \in AfterGet) => rv'[c] = version
         /\ (pc[c] \in AfterGet /\ pc'[c] \in AfterGet) => rv'[c] = rv[c]
         /\ (pc[c] \in {"AcquireUpdate", "ReleaseUpdate"} /\ pc'[c] # pc[c])
            => /\ tok'[c] = rv[c]
               /\ tok'[c] # NoToken
               /\ (version' # version) <=> (tok'[c] = version)
         /\ pc'[c] = "idle" => rv'[c] = NoToken
         /\ pc[c] \notin AfterGet => rv[c] = NoToken]_vars

\* alice's second call has written with the token its own getMeta returned,
\* not the token 0 of her first call.
C12_Witness ==
    /\ Returned("alice", "Release")
    /\ ret["alice"].err = "nil"
    /\ tok["alice"] = 1
    /\ version = 2
    /\ rv["alice"] = NoToken
    /\ pc["bob"] = "idle" /\ ret["bob"] = NoRet

\* C13: when a write has landed since c's getMeta (the store's version is
\* no longer the one c read), c's updateMeta is refused: c returns the
\* conflict error and map, payload and version stay as the last writer left
\* them; a write of c lands only with the version it read still current.
C13_StaleWritesNeverLand ==
    [][\A c \in Coordinators :
         (pc[c] \in {"AcquireUpdate", "ReleaseUpdate"} /\ pc'[c] # pc[c])
         => /\ rv[c] < version
               => /\ ret'[c].err = "Conflict"
                  /\ <<annotations', item', version'>>
                       = <<annotations, item, version>>
            /\ (annotations' # annotations \/ version' # version)
               => rv[c] = version]_vars

\* alice's renewal, called while her record was live, lost against bob's
\* takeover: the record is bob's.
C13_Witness ==
    /\ Returned("alice", "Acquire")
    /\ ret["alice"].err = "Conflict"
    /\ held["alice"] # NoGrant
    /\ version = tok["alice"] + 1
    /\ HasRecord(defaultAnnotationKey)
    /\ Record(defaultAnnotationKey) = LockData("bob", grant["bob"])

\* The map m holds under k a non-empty value that is not a lock record.
MalformedIn(m, k) == k \in DOMAIN m /\ m[k] = Garbage

\* C14: when the lock field holds a non-empty value that does not decode,
\* Acquire and Release return an error without calling updateMeta, the
\* store is as it was, and CurrentOwner returns an error, not "".
C14_MalformedRecordIsFatal ==
    [][\A c \in Coordinators :
         /\ (Leaves(c, "AcquireCheck") /\ MalformedIn(ann[c], annotationKey[c]))
            => /\ ret'[c] = Ret("Acquire", "Malformed", "")
               /\ pc'[c] = "idle"
               /\ updates'[c] = 0
               /\ store' = store
         /\ ( /\ Leaves(c, "ReleaseGet")
              /\ exists
              /\ MalformedIn(annotations, annotationKey[c]) )
            => /\ ret'[c] = Ret("Release", "Malformed", "")
               /\ pc'[c] = "idle"
               /\ updates'[c] = 0
               /\ store' = store
         /\ ( /\ CurrentOwner(c)
              /\ exists
              /\ MalformedIn(annotations, annotationKey[c]) )
            => /\ ret'[c] = Ret("CurrentOwner", "Malformed", "")
               /\ store' = store
         /\ (exists /\ MalformedIn(annotations, annotationKey[c]))
            => MalformedIn(annotations', annotationKey[c])]_vars

\* alice's Acquire has just failed on the malformed value, which is still
\* there at the version it had.
C14_Witness ==
    /\ Returned("alice", "Acquire")
    /\ ret["alice"] = Ret("Acquire", "Malformed", "")
    /\ updates["alice"] = 0
    /\ MalformedIn(annotations, defaultAnnotationKey)
    /\ version = 0

\* C15: Acquire calls createMeta only after existsMeta reported false; when
\* createMeta is refused (the object was created meanwhile) Acquire returns
\* that error without getMeta or updateMeta and takes no lock; Release on a
\* missing object returns success at once; so only the createMeta of an
\* Acquire brings the object into existence.
C15_BackingObjectExistence ==
    [][\A c \in Coordinators :
         /\ (pc[c] = "idle" /\ pc'[c] = "AcquireCreate") => ~exists
         /\ (pc[c] = "idle" /\ pc'[c] = "AcquireGet") => exists
         /\ (Leaves(c, "AcquireCreate") /\ exists)
            => /\ ret'[c] = Ret("Acquire", "CreateError", "")
               /\ pc'[c] = "idle"
               /\ rv'[c] = NoToken
               /\ updates'[c] = 0
               /\ grant'[c] = grant[c]
               /\ store' = store
         /\ (Leaves(c, "AcquireCreate") /\ ~exists)
            => exists' /\ pc'[c] = "AcquireGet"
         /\ (ReleaseExists(c) /\ ~exists)
            => /\ ret'[c] = Ret("Release", "nil", "")
               /\ pc'[c] = "idle"
               /\ updates'[c] = 0
               /\ store' = store
         /\ (exists' # exists)
            => \E d \in Coordinators : Leaves(d, "AcquireCreate")]_vars

\* alice and bob both found the object missing; alice created it and holds
\* the lock, bob's createMeta was refused and he holds nothing.
C15_Witness ==
    /\ Returned("bob", "Acquire")
    /\ ret["bob"].err = "CreateError"
    /\ updates["bob"] = 0 /\ tok["bob"] = NoToken
    /\ grant["bob"] = NoGrant
    /\ InForce("alice")
    /\ Record(defaultAnnotationKey).Owner = "alice"

\* C16: an Acquire by c that read c's own record goes on to write at any
\* clock reading, also past the record's expiresAt; with the version still
\* current its update of an expired own record succeeds like a renewal; no
\* record is refused unless it is foreign.
C16_OwnRecordIgnoresExpiry ==
    [][\A c \in Coordinators :
         /\ ( /\ Leaves(c, "AcquireCheck")
              /\ LocalHas(c)
              /\ LocalRecord(c).Owner = ownerID[c] )
            => /\ pc'[c] = "AcquireLock"
               /\ \A t \in 0..(MaxTime + 1) : AcquireDecide(c, ann[c], t) = "free"
         /\ ( /\ Leaves(c, "AcquireUpdate")
              /\ rv[c] = version
              /\ HasRecord(annotationKey[c])
              /\ Record(annotationKey[c]).Owner = ownerID[c]
              /\ Record(annotationKey[c]).ExpiresAt <= now )
            => /\ ret'[c] = Ret("Acquire", "nil", "")
               /\ RecordAfter(annotationKey[c]).Owner = ownerID[c]
               /\ RecordAfter(annotationKey[c]).ExpiresAt = grant'[c]
         /\ (ret'[c] # ret[c] /\ ret'[c].err = "AlreadyLocked")
            => /\ LocalHas(c)
               /\ LocalRecord(c).Owner # ownerID[c]]_vars

\* alice, whose call began when her own record had expired, has read that
\* record and passed the test.
C16_Witness ==
    /\ pc["alice"] = "AcquireLock"
    /\ held["alice"] = NoGrant
    /\ LocalHas("alice")
    /\ LocalRecord("alice").Owner = "alice"
    /\ LocalRecord("alice").ExpiresAt <= now

\* C17: an Acquire by c that tests a foreign record is refused with
\* AlreadyLocked exactly when the clock is strictly before the record's
\* expiresAt; at the instant the clock equals expiresAt it goes on to write.
C17_ExpiryBoundary ==
    [][\A c \in Coordinators :
         ( /\ Leaves(c, "AcquireCheck")
           /\ LocalHas(c)
           /\ LocalRecord(c).Owner # ownerID[c] )
         => /\ (ret'[c].err = "AlreadyLocked" /\ pc'[c] = "idle")
               <=> now < LocalRecord(c).ExpiresAt
            /\ pc'[c] = "AcquireLock" <=> now >= LocalRecord(c).ExpiresAt
            /\ now = LocalRecord(c).ExpiresAt => pc'[c] = "AcquireLock"]_vars

\* bob has completed a takeover at the very instant alice's grant ran out.
C17_Witness ==
    /\ Returned("bob", "Acquire")
    /\ ret["bob"] = Ret("Acquire", "nil", "")
    /\ grant["alice"] = now
    /\ version = tok["bob"] + 1
    /\ Record(defaultAnnotationKey) = LockData("bob", now + ttl["bob"])

(* ----------------------------------------------------- an abandoned lock *)
\* alice acquired the lock at time 0 on an object without a holder and has
\* made no call since; bob has made none yet.
InitAbandoned ==
    /\ exists = TRUE
    /\ annotations \in
         { MapSet(m, defaultAnnotationKey,
                  Marshal(LockData(ownerID["alice"], AcquireExpiredAt("alice", 0)))) :
             m \in { EmptyMap, [k \in {OtherKey} |-> Garbage] } }
    /\ version = 1
    /\ item = Payload
    /\ now = 0
    /\ pc = [c \in AllCoordinators |-> "idle"]
    /\ ann = [c \in AllCoordinators |-> EmptyMap]
    /\ rv = [c \in AllCoordinators |-> NoToken]
    /\ extra = [c \in AllCoordinators |-> ""]
    /\ ret = [c \in AllCoordinators |->
                IF c = "alice" THEN Ret("Acquire", "nil", "") ELSE NoRet]
    /\ tok = [c \in AllCoordinators |-> IF c = "alice" THEN 0 ELSE NoToken]
    /\ updates = [c \in AllCoordinators |-> IF c = "alice" THEN 1 ELSE 0]
    /\ grant = [c \in AllCoordinators |->
                  IF c = "alice" THEN AcquireExpiredAt("alice", 0) ELSE NoGrant]
    /\ held = [c \in AllCoordinators |-> NoGrant]

\* alice never calls again; bob calls Acquire, and looks at the owner, as
\* often as he likes.
NextAbandoned ==
    \/ AcquireExists("bob")
    \/ AcquireGet("bob")
    \/ AcquireCheck("bob")
    \/ AcquireLock("bob")
    \/ AcquireUpdate("bob")
    \/ CurrentOwner("bob")
    \/ Tick

\* The clock advances and bob keeps calling Acquire, each call running to
\* its end.
FairAbandoned ==
    /\ WF_vars(Tick)
    /\ WF_vars(AcquireExists("bob"))
    /\ WF_vars(AcquireGet("bob"))
    /\ WF_vars(AcquireCheck("bob"))
    /\ WF_vars(AcquireLock("bob"))
    /\ WF_vars(AcquireUpdate("bob"))

SpecAbandoned == InitAbandoned /\ [][NextAbandoned]_vars /\ FairAbandoned

\* C18: a lock whose holder has stopped calling is obtained in the end by a
\* coordinator that keeps calling Acquire while the clock advances: from
\* any state where alice's abandoned record is in the store, a state follows
\* where bob's Acquire has returned success and the record is bob's.
C18_NoPermanentLockout ==
    ( /\ HasRecord(defaultAnnotationKey)
      /\ Record(defaultAnnotationKey).Owner = ownerID["alice"] )
    ~> ( /\ ret["bob"].op = "Acquire" /\ ret["bob"].err = "nil"
         /\ HasRecord(defaultAnnotationKey)
         /\ Record(defaultAnnotationKey) = LockData(ownerID["bob"], grant["bob"]) )

\* bob, refused while alice's record was live, has now taken the lock over
\* after its expiry.
C18_Witness ==
    /\ Returned("bob", "Acquire")
    /\ ret["bob"].err = "nil"
    /\ tok["bob"] = 1
    /\ grant["alice"] <= ret["bob"].at
    /\ Record(defaultAnnotationKey) = LockData("bob", grant["bob"])

(* ------------------------------------------- two locks on one object *)
\* alice and carol keep their locks under different keys of the same object.
KeyHolders == {"alice", "carol"}

NextKeys ==
    \/ \E c \in KeyHolders : AcquireExists(c)
    \/ \E c \in KeyHolders : AcquireCreate(c)
    \/ \E c \in KeyHolders : AcquireGet(c)
    \/ \E c \in KeyHolders : AcquireCheck(c)
    \/ \E c \in KeyHolders : AcquireLock(c)
    \/ \E c \in KeyHolders : AcquireUpdate(c)
    \/ \E c \in KeyHolders : ReleaseExists(c)
    \/ \E c \in KeyHolders : ReleaseGet(c)
    \/ \E c \in KeyHolders : ReleaseUpdate(c)
    \/ \E c \in KeyHolders : CurrentOwner(c)
    \/ Tick

SpecKeys == Init /\ [][NextKeys]_vars

\* The maps m1 and m2 have the same entries apart from the one under k.
EqualExcept(m1, m2, k) ==
    /\ (DOMAIN m1) \ {k} = (DOMAIN m2) \ {k}
    /\ \A x \in (DOMAIN m1) \ {k} : m1[x] = m2[x]

\* C19: the map and payload a call holds after getMeta are those of the
\* store; the map it hands to updateMeta differs from them in the entry
\* under its own key at most and the payload not at all; so a step of c
\* leaves every entry under another key and the payload as they were, and
\* a refused update leaves the whole store as it was.
C19_WritesTouchOnlyTheLockField ==
    [][\A c \in KeyHolders :
         /\ (Leaves(c, "AcquireGet") /\ exists)
            => ann'[c] = annotations /\ extra'[c] = item
         /\ Leaves(c, "AcquireLock")
            => /\ EqualExcept(ann'[c], ann[c], annotationKey[c])
               /\ extra'[c] = extra[c]
         /\ (Leaves(c, "ReleaseGet") /\ pc'[c] = "ReleaseUpdate")
            => /\ EqualExcept(ann'[c], annotations, annotationKey[c])
               /\ extra'[c] = item
         /\ (pc[c] \in {"AcquireUpdate", "ReleaseUpdate"} /\ pc'[c] # pc[c])
            => IF rv[c] = version
               THEN annotations' = ann[c] /\ item' = extra[c]
               ELSE store' = store /\ ret'[c].err = "Conflict"
         /\ pc'[c] # pc[c]
            => /\ EqualExcept(annotations', annotations, annotationKey[c])
               /\ item' = item]_vars

\* alice's Acquire has landed on a map that held carol's record, and carol's
\* record is still there beside alice's.
C19_Witness ==
    /\ Returned("alice", "Acquire")
    /\ ret["alice"].err = "nil"
    /\ version = tok["alice"] + 1
    /\ tok["carol"] # NoToken /\ tok["carol"] < tok["alice"]
    /\ HasRecord(OtherKey)
    /\ Record(OtherKey) = LockData("carol", grant["carol"])
    /\ Record(defaultAnnotationKey) = LockData("alice", grant["alice"])

\* C20: a CurrentOwner call leaves the store (existence, map, version,
\* payload) as it was, calls updateMeta not once, fails when there is no
\* object instead of creating one, and leaves every other coordinator where
\* it was with its token as acceptable to updateMeta as before.
C20_CurrentOwnerIsReadOnly ==
    [][\A c \in Coordinators :
         CurrentOwner(c)
         => /\ store' = store
            /\ updates'[c] = 0 /\ tok'[c] = NoToken
            /\ ~exists => ret'[c] = Ret("CurrentOwner", "GetError", "")
            /\ \A d \in Coordinators \ {c} :
                 /\ pc'[d] = pc[d] /\ rv'[d] = rv[d] /\ ann'[d] = ann[d]
                 /\ updateMetaOk(rv[d]) <=> (exists' /\ rv'[d] = version')]_vars

\* bob has looked at the owner while alice was about to submit her update;
\* her token is still the current one.
C20_Witness ==
    /\ Returned("bob", "CurrentOwner")
    /\ ret["bob"].err = "nil"
    /\ ret["bob"].at = now
    /\ pc["alice"] = "AcquireUpdate"
    /\ rv["alice"] = version

====
